---------------------------- MODULE Spec2Model ----------------------------
(***************************************************************************)
(* Model of gravis/_internal/features/legends.py: LegendConfig and the     *)
(* static methods of LegendBuilder (category detection, explicit merge,    *)
(* validation helpers, markup rendering).                                  *)
(*                                                                         *)
(* Encoding of Python values                                               *)
(*   - a Python value is a tagged record [t, v]: t \in {"str", "int",      *)
(*     "none", "bool"}; a str is the sequence of its characters, each a    *)
(*     one-character string;                                               *)
(*   - a dict is a function whose DOMAIN is the set of keys present;       *)
(*   - a list is a sequence;                                               *)
(*   - an insertion-ordered dict whose keys are Python values (the         *)
(*     defaultdict of the detectors) is a sequence of [key, ...] records   *)
(*     in insertion order;                                                 *)
(*   - a call that raises yields the record Raise(<exception name>);       *)
(*   - a list that is shared by reference (the entry lists of the          *)
(*     LegendConfig objects a caller holds) lives in `heap`, a sequence    *)
(*     of lists indexed by address; an object holds the address.           *)
(***************************************************************************)
EXTENDS Integers, Sequences, FiniteSets, TLC

VARIABLES graph_data, last, heap, configs, log

vars == <<graph_data, last, heap, configs, log>>

---------------------------------------------------------------------------
(* Bounds of the model *)

\* total number of records in nodes, edges, node_legend and edge_legend
MaxRecords == 3

---------------------------------------------------------------------------
(* Python values *)

PyNone == [t |-> "none", v |-> 0]
PyStr(s) == [t |-> "str", v |-> s]
PyInt(n) == [t |-> "int", v |-> n]
PyBool(b) == [t |-> "bool", v |-> b]
Raise(e) == [t |-> "raise", v |-> e]

IsStr(x) == x.t = "str"
IsInt(x) == x.t = "int"
IsRaise(x) == x.t = "raise"

\* bool(x)
Truthy(x) ==
    CASE x.t = "none" -> FALSE
      [] x.t = "str"  -> Len(x.v) > 0
      [] x.t = "int"  -> x.v # 0
      [] x.t = "bool" -> x.v

\* d.get(k, default)
DictGet(d, k, default) == IF k \in DOMAIN d THEN d[k] ELSE default

---------------------------------------------------------------------------
(* Characters and str methods *)

LowerSeq == <<"a","b","c","d","e","f","g","h","i","j","k","l","m",
              "n","o","p","q","r","s","t","u","v","w","x","y","z">>
UpperSeq == <<"A","B","C","D","E","F","G","H","I","J","K","L","M",
              "N","O","P","Q","R","S","T","U","V","W","X","Y","Z">>
DigitSeq == <<"0","1","2","3","4","5","6","7","8","9">>

Range(f) == {f[i] : i \in DOMAIN f}
IndexOf(seq, c) == CHOOSE i \in DOMAIN seq : seq[i] = c

Whitespace == {" ", "\t", "\n"}
Digits == Range(DigitSeq)
Letters == Range(LowerSeq) \cup Range(UpperSeq)
HexDigits == Digits \cup {"a","b","c","d","e","f","A","B","C","D","E","F"}

\* str.lower() on one character
LowerChar(c) == IF c \in Range(UpperSeq) THEN LowerSeq[IndexOf(UpperSeq, c)] ELSE c
\* str.lower()
Lower(s) == [i \in DOMAIN s |-> LowerChar(s[i])]

RECURSIVE LStrip(_)
LStrip(s) == IF s # <<>> /\ Head(s) \in Whitespace THEN LStrip(Tail(s)) ELSE s

RECURSIVE RStrip(_)
RStrip(s) ==
    IF s # <<>> /\ s[Len(s)] \in Whitespace
    THEN RStrip(SubSeq(s, 1, Len(s) - 1))
    ELSE s

\* str.strip()
Strip(s) == RStrip(LStrip(s))

\* html.escape(s, quote=True) on one character
EscapeChar(c) ==
    CASE c = "&"  -> <<"&","a","m","p",";">>
      [] c = "<"  -> <<"&","l","t",";">>
      [] c = ">"  -> <<"&","g","t",";">>
      [] c = "\"" -> <<"&","q","u","o","t",";">>
      [] c = "'"  -> <<"&","#","x","2","7",";">>
      [] OTHER    -> <<c>>

RECURSIVE EscapeSeq(_)
EscapeSeq(s) == IF s = <<>> THEN <<>> ELSE EscapeChar(Head(s)) \o EscapeSeq(Tail(s))

\* html.escape(x): x.replace(...) raises AttributeError unless x is a str
HtmlEscape(x) == IF IsStr(x) THEN PyStr(EscapeSeq(x.v)) ELSE Raise("AttributeError")

\* value of a non-empty sequence of decimal digits
RECURSIVE DigitsValue(_)
DigitsValue(s) ==
    IF s = <<>> THEN 0
    ELSE 10 * DigitsValue(SubSeq(s, 1, Len(s) - 1)) + (IndexOf(DigitSeq, s[Len(s)]) - 1)

AllDigits(s) == s # <<>> /\ \A i \in DOMAIN s : s[i] \in Digits

\* the digits of int(<str>) after the sign
SignedDigits(sign, body) ==
    IF AllDigits(body)
    THEN PyInt(IF sign = "-" THEN 0 - DigitsValue(body) ELSE DigitsValue(body))
    ELSE Raise("ValueError")

\* int(<str>) on the stripped text: an optional sign, then one or more digits
ParseInt(s) ==
    IF s # <<>> /\ Head(s) \in {"+", "-"}
    THEN SignedDigits(Head(s), Tail(s))
    ELSE SignedDigits("+", s)

\* int(x): the integer, or Raise for ValueError / TypeError
PyIntOf(x) ==
    CASE x.t = "int"  -> x
      [] x.t = "bool" -> PyInt(IF x.v THEN 1 ELSE 0)
      [] x.t = "none" -> Raise("TypeError")
      [] x.t = "str"  -> ParseInt(Strip(x.v))

Max(a, b) == IF a >= b THEN a ELSE b

---------------------------------------------------------------------------
(* Validation helpers *)

Ok(x) == [t |-> "ok", v |-> x]

\* the positions at which a pattern ending in `$` may end: the end of the
\* string, or just before a final newline
DollarEnds(s) ==
    {Len(s)} \cup (IF s # <<>> /\ s[Len(s)] = "\n" THEN {Len(s) - 1} ELSE {})

HexMinDigits == 3
HexMaxDigits == 8

\* ^#[0-9a-fA-F]{3,8}$
MatchHex(s) ==
    \E n \in DollarEnds(s) :
        /\ n >= 1
        /\ s[1] = "#"
        /\ n - 1 >= HexMinDigits
        /\ n - 1 <= HexMaxDigits
        /\ \A i \in 2..n : s[i] \in HexDigits

\* ^rgba?\([^)]+\)$ and ^hsla?\([^)]+\)$ under re.IGNORECASE (name is "rgb" or "hsl")
MatchFunc(s, name) ==
    \E n \in DollarEnds(s) : \E p \in {3, 4} :
        /\ n >= p + 3
        /\ Lower(SubSeq(s, 1, 3)) = name
        /\ p = 4 => LowerChar(s[4]) = "a"
        /\ s[p + 1] = "("
        /\ \A i \in (p + 2)..(n - 1) : s[i] # ")"
        /\ s[n] = ")"

\* ^[a-z]+$ under re.IGNORECASE
MatchNamed(s) ==
    \E n \in DollarEnds(s) :
        /\ n >= 1
        /\ \A i \in 1..n : s[i] \in Letters

\* any(re.match(pattern, color, re.IGNORECASE) for pattern in patterns)
MatchesAnyPattern(c) ==
    \/ MatchHex(c)
    \/ MatchFunc(c, <<"r","g","b">>)
    \/ MatchFunc(c, <<"h","s","l">>)
    \/ MatchNamed(c)

\* lines 251-261 on the stripped text of a str
ValidColorText(c) == IF c = <<>> THEN FALSE ELSE MatchesAnyPattern(c)

\* LegendBuilder._is_valid_color
IsValidColor(color) ==
    IF ~Truthy(color) \/ ~IsStr(color) THEN FALSE
    ELSE ValidColorText(Strip(color.v))

\* a variant without the floor at 1
ClampNoFloor(val, default) == IF IsRaise(val) THEN default ELSE val.v

\* max(1, val), or the default when int(value) raised ValueError / TypeError
ClampDimension(val, default) == IF IsRaise(val) THEN default ELSE Max(1, val.v)

\* LegendBuilder._sanitize_dimension
SanitizeDimension(value, default) == ClampDimension(PyIntOf(value), default)

Solid == <<"s","o","l","i","d">>
Dashed == <<"d","a","s","h","e","d">>
Dotted == <<"d","o","t","t","e","d">>
Circle == <<"c","i","r","c","l","e">>

\* patterns.get(key, "none")
DashPatternOf(key) ==
    CASE key = Solid  -> "none"
      [] key = Dashed -> "4,3"
      [] key = Dotted -> "1,3"
      [] OTHER        -> "none"

\* LegendBuilder._get_dash_pattern: style.lower() raises on a truthy non-str
GetDashPattern(style) ==
    IF ~Truthy(style) THEN Ok(DashPatternOf(<<>>))
    ELSE IF ~IsStr(style) THEN Raise("AttributeError")
    ELSE Ok(DashPatternOf(Lower(style.v)))

\* LegendBuilder._get_shape_radius: shape.lower() raises on a truthy non-str
GetShapeRadius(shape) ==
    IF ~Truthy(shape) THEN Ok("4px")
    ELSE IF ~IsStr(shape) THEN Raise("AttributeError")
    ELSE IF Lower(shape.v) = Circle THEN Ok("50%") ELSE Ok("4px")

---------------------------------------------------------------------------
(* Category detection *)

DefaultCategory == PyStr(<<"d","e","f","a","u","l","t">>)
DefaultNodeColor == PyStr(<<"#","6","6","6","6","6","6">>)
DefaultEdgeColor == PyStr(<<"#","9","9","9","9","9","9">>)

\* metadata = record.get('metadata', record)
MetadataOf(record) == DictGet(record, "metadata", record)

\* a variant that reads `type` before `legend_category`
CategoryTypeFirst(metadata) ==
    DictGet(metadata, "type", DictGet(metadata, "legend_category", DefaultCategory))

\* metadata.get('legend_category', metadata.get('type', 'default'))
CategoryIn(metadata) ==
    DictGet(metadata, "legend_category", DictGet(metadata, "type", DefaultCategory))

\* the category key of a node or edge record
CategoryOf(record) == CategoryIn(MetadataOf(record))

HasKey(cats, key) == \E i \in DOMAIN cats : cats[i].key = key
KeyIndex(cats, key) == CHOOSE i \in DOMAIN cats : cats[i].key = key

\* categories[category] on the defaultdict: creates the entry when missing;
\* dims are the sizes (widths), looks the shapes (styles)
Touch(cats, key) ==
    IF HasKey(cats, key) THEN cats
    ELSE Append(cats, [key |-> key, colors |-> {}, dims |-> {}, looks |-> {}])

\* if color and color.strip(): categories[category]['colors'].add(color)
AddColor(cats, i, color) ==
    IF ~Truthy(color) THEN Ok(cats)
    ELSE IF ~IsStr(color) THEN Raise("AttributeError")
    ELSE IF Strip(color.v) # <<>>
    THEN Ok([cats EXCEPT ![i].colors = @ \cup {color}])
    ELSE Ok(cats)

\* if key in metadata: categories[category][<shapes|styles>].add(metadata[key])
AddLook(cats, i, metadata, key) ==
    IF key \in DOMAIN metadata
    THEN [cats EXCEPT ![i].looks = @ \cup {metadata[key]}]
    ELSE cats

\* if 'size' in metadata: categories[category]['sizes'].add(metadata['size'])
AddSize(cats, i, metadata) ==
    IF "size" \in DOMAIN metadata
    THEN [cats EXCEPT ![i].dims = @ \cup {metadata["size"]}]
    ELSE cats

\* if 'weight' in metadata or 'width' in metadata:
\*     categories[category]['widths'].add(metadata.get('weight', metadata.get('width')))
AddWidth(cats, i, metadata) ==
    IF "weight" \in DOMAIN metadata \/ "width" \in DOMAIN metadata
    THEN [cats EXCEPT ![i].dims = @ \cup
              {DictGet(metadata, "weight", DictGet(metadata, "width", PyNone))}]
    ELSE cats

\* lines 201-204, after the color of the node was handled
NodeRest(colored, i, metadata) ==
    IF IsRaise(colored) THEN colored
    ELSE Ok(AddSize(AddLook(colored.v, i, metadata, "shape"), i, metadata))

\* lines 231-234, after the color of the edge was handled
EdgeRest(colored, i, metadata) ==
    IF IsRaise(colored) THEN colored
    ELSE Ok(AddLook(AddWidth(colored.v, i, metadata), i, metadata, "style"))

\* lines 196-204 / 226-234 on the categories with the record's one created
StepIn(touched, category, metadata, kind) ==
    IF kind = "node"
    THEN NodeRest(AddColor(touched, KeyIndex(touched, category),
                           DictGet(metadata, "color", PyNone)),
                  KeyIndex(touched, category), metadata)
    ELSE EdgeRest(AddColor(touched, KeyIndex(touched, category),
                           DictGet(metadata, "color", PyNone)),
                  KeyIndex(touched, category), metadata)

\* one iteration of the loop over nodes (lines 191-204) or edges (221-234)
Step(cats, record, kind) ==
    StepIn(Touch(cats, CategoryOf(record)), CategoryOf(record),
           MetadataOf(record), kind)

\* the loop over the records: the categories in first-seen order, or the
\* exception of the first record that raises
RECURSIVE Collect(_, _, _)
CollectRest(stepped, records, kind) ==
    IF IsRaise(stepped) THEN stepped ELSE Collect(stepped.v, records, kind)

Collect(cats, records, kind) ==
    IF records = <<>> THEN Ok(cats)
    ELSE CollectRest(Step(cats, Head(records), kind), Tail(records), kind)

\* sum(S) of a set of int values
RECURSIVE SumValues(_)
SumValues(S) ==
    IF S = {} THEN 0
    ELSE SumValues(S \ {CHOOSE y \in S : TRUE}) + (CHOOSE y \in S : TRUE).v

\* a variant that rounds down (a // b) instead of truncating
FloorDiv(a, b) == a \div b

\* int(a / b) for integers a and b > 0: the quotient truncated toward zero
TruncDiv(a, b) == IF a >= 0 THEN a \div b ELSE 0 - ((0 - a) \div b)

\* int(sum(S) / len(S)): sum raises TypeError on a non-numeric member
IntAverage(S) ==
    IF \A x \in S : IsInt(x)
    THEN Ok(PyInt(TruncDiv(SumValues(S), Cardinality(S))))
    ELSE Raise("TypeError")

\* int(sum(S) / len(S)) if S else default
AverageOr(S, default) == IF S = {} THEN Ok(PyInt(default)) ELSE IntAverage(S)

\* list(S)[0] if S else default: any member of the set, its order being the
\* hash order of the run
AnyMember(S, default) == IF S = {} THEN {default} ELSE S

\* lines 208-212: the result entries one node category can get
NodeProps(cat, size) ==
    IF IsRaise(size) THEN {size}
    ELSE {Ok([key |-> cat.key,
              props |-> [color |-> c, shape |-> s, size |-> size.v]]) :
            c \in AnyMember(cat.colors, PyNone),
            s \in AnyMember(cat.looks, PyStr(Circle))}

\* lines 238-242: the result entries one edge category can get
EdgeProps(cat, width) ==
    IF IsRaise(width) THEN {width}
    ELSE {Ok([key |-> cat.key,
              props |-> [color |-> c, width |-> width.v, style |-> s]]) :
            c \in AnyMember(cat.colors, PyNone),
            s \in AnyMember(cat.looks, PyStr(Solid))}

PropsOf(cat, kind) ==
    IF kind = "node" THEN NodeProps(cat, AverageOr(cat.dims, 10))
    ELSE EdgeProps(cat, AverageOr(cat.dims, 2))

\* `result` extended by one category: the exception of the first category
\* that raises, else every combination
Combine(heads, rest) ==
    IF \E h \in heads : IsRaise(h) THEN heads
    ELSE IF \E r \in rest : IsRaise(r) THEN rest
    ELSE {Ok(<<h.v>> \o r.v) : h \in heads, r \in rest}

\* the result loop (lines 206-213 / 236-243): every way of building `result`
RECURSIVE Summarize(_, _)
Summarize(cats, kind) ==
    IF cats = <<>> THEN {Ok(<<>>)}
    ELSE Combine(PropsOf(Head(cats), kind), Summarize(Tail(cats), kind))

\* the two loops of a detector
Detect(collected, kind) ==
    IF IsRaise(collected) THEN {collected} ELSE Summarize(collected.v, kind)

\* LegendBuilder._detect_node_categories: the set of possible outcomes, each
\* Ok(<result>) or Raise(...)
DetectNodeCategories(gd) ==
    Detect(Collect(<<>>, DictGet(gd, "nodes", <<>>), "node"), "node")

\* LegendBuilder._detect_edge_categories: the set of possible outcomes
DetectEdgeCategories(gd) ==
    Detect(Collect(<<>>, DictGet(gd, "edges", <<>>), "edge"), "edge")

---------------------------------------------------------------------------
(* LegendConfig and its entries *)

\* NodeLegendEntry(label, color, shape, size, border_color, border_width)
NodeLegendEntry(label, color, shape, size, border_color, border_width) ==
    [label |-> label, color |-> color, shape |-> shape, size |-> size,
     border_color |-> border_color, border_width |-> border_width]

\* EdgeLegendEntry(label, color, width, style, arrow)
EdgeLegendEntry(label, color, width, style, arrow) ==
    [label |-> label, color |-> color, width |-> width, style |-> style,
     arrow |-> arrow]

\* LegendConfig(): the default_factory gives each config its own empty lists
LegendConfig == [opacity |-> "0.9", node_entries |-> <<>>, edge_entries |-> <<>>]

\* LegendConfig.add_node_entry
AddNodeEntry(legend, entry) ==
    [legend EXCEPT !.node_entries = Append(@, entry)]

\* LegendConfig.add_edge_entry
AddEdgeEntry(legend, entry) ==
    [legend EXCEPT !.edge_entries = Append(@, entry)]

---------------------------------------------------------------------------
(* LegendBuilder.from_graph_data *)

\* the entry of lines 133-138 for one detected node category
DetectedNodeEntry(category, props) ==
    NodeLegendEntry(category,
                    DictGet(props, "color", DefaultNodeColor),
                    DictGet(props, "shape", PyStr(Circle)),
                    DictGet(props, "size", PyInt(10)),
                    PyNone, PyInt(0))

\* the entry of lines 143-148 for one detected edge category
DetectedEdgeEntry(category, props) ==
    EdgeLegendEntry(category,
                    DictGet(props, "color", DefaultEdgeColor),
                    DictGet(props, "width", PyInt(2)),
                    DictGet(props, "style", PyStr(Solid)),
                    PyBool(TRUE))

\* the loop of lines 132-138 over node_categories.items()
RECURSIVE AddDetectedNodes(_, _)
AddDetectedNodes(legend, result) ==
    IF result = <<>> THEN legend
    ELSE AddDetectedNodes(
             AddNodeEntry(legend,
                          DetectedNodeEntry(Head(result).key, Head(result).props)),
             Tail(result))

\* the loop of lines 142-148 over edge_categories.items()
RECURSIVE AddDetectedEdges(_, _)
AddDetectedEdges(legend, result) ==
    IF result = <<>> THEN legend
    ELSE AddDetectedEdges(
             AddEdgeEntry(legend,
                          DetectedEdgeEntry(Head(result).key, Head(result).props)),
             Tail(result))

\* the entry of lines 166-173 for one record of node_legend
ExplicitNodeEntry(entry) ==
    NodeLegendEntry(DictGet(entry, "label", PyStr(<<>>)),
                    DictGet(entry, "color", DefaultNodeColor),
                    DictGet(entry, "shape", PyStr(Circle)),
                    DictGet(entry, "size", PyInt(10)),
                    DictGet(entry, "border_color", PyNone),
                    DictGet(entry, "border_width", PyInt(0)))

\* the entry of lines 176-182 for one record of edge_legend
ExplicitEdgeEntry(entry) ==
    EdgeLegendEntry(DictGet(entry, "label", PyStr(<<>>)),
                    DictGet(entry, "color", DefaultEdgeColor),
                    DictGet(entry, "width", PyInt(2)),
                    DictGet(entry, "style", PyStr(Solid)),
                    DictGet(entry, "arrow", PyBool(TRUE)))

\* a variant that drops an explicit entry whose label is already in the legend
RECURSIVE MergeSkippingDuplicates(_, _, _)
MergeSkippingDuplicates(legend, explicit_data, legend_type) ==
    IF explicit_data = <<>> THEN legend
    ELSE IF legend_type = "node"
    THEN MergeSkippingDuplicates(
             IF \E i \in DOMAIN legend.node_entries :
                    legend.node_entries[i].label = ExplicitNodeEntry(Head(explicit_data)).label
             THEN legend
             ELSE AddNodeEntry(legend, ExplicitNodeEntry(Head(explicit_data))),
             Tail(explicit_data), legend_type)
    ELSE MergeSkippingDuplicates(
             IF \E i \in DOMAIN legend.edge_entries :
                    legend.edge_entries[i].label = ExplicitEdgeEntry(Head(explicit_data)).label
             THEN legend
             ELSE AddEdgeEntry(legend, ExplicitEdgeEntry(Head(explicit_data))),
             Tail(explicit_data), legend_type)

\* LegendBuilder._merge_explicit_legend
RECURSIVE MergeExplicitLegend(_, _, _)
MergeExplicitLegend(legend, explicit_data, legend_type) ==
    IF explicit_data = <<>> THEN legend
    ELSE IF legend_type = "node"
    THEN MergeExplicitLegend(AddNodeEntry(legend, ExplicitNodeEntry(Head(explicit_data))),
                             Tail(explicit_data), legend_type)
    ELSE IF legend_type = "edge"
    THEN MergeExplicitLegend(AddEdgeEntry(legend, ExplicitEdgeEntry(Head(explicit_data))),
                             Tail(explicit_data), legend_type)
    ELSE legend

\* if key in metadata: legend = _merge_explicit_legend(legend, metadata[key], type)
MergeIfPresent(legend, metadata, key, legend_type) ==
    IF key \in DOMAIN metadata
    THEN MergeExplicitLegend(legend, metadata[key], legend_type)
    ELSE legend

\* lines 150-157: the explicit merge, run whatever auto_detect is
MergeExplicit(legend, gd) ==
    MergeIfPresent(MergeIfPresent(legend, DictGet(gd, "metadata", <<>>),
                                  "node_legend", "node"),
                   DictGet(gd, "metadata", <<>>), "edge_legend", "edge")

\* lines 129-148 given the outcomes of the two detectors: the possible
\* configs, or the exception a detector raises
AddDetected(legend, nodeOuts, edgeOuts) ==
    IF \E n \in nodeOuts : IsRaise(n) THEN nodeOuts
    ELSE IF \E e \in edgeOuts : IsRaise(e) THEN edgeOuts
    ELSE {Ok(AddDetectedEdges(AddDetectedNodes(legend, n.v), e.v)) :
            n \in nodeOuts, e \in edgeOuts}

\* the auto-detect block of lines 129-148
AutoDetect(legend, gd) ==
    AddDetected(legend, DetectNodeCategories(gd), DetectEdgeCategories(gd))

\* a variant that detects whatever auto_detect is
DetectedAlways(gd, auto_detect) == AutoDetect(LegendConfig, gd)

\* the `if auto_detect:` of line 129
Detected(gd, auto_detect) ==
    IF auto_detect THEN AutoDetect(LegendConfig, gd) ELSE {Ok(LegendConfig)}

\* LegendBuilder.from_graph_data: the set of possible outcomes, each
\* Ok(<LegendConfig>) or Raise(...)
FromGraphData(gd, auto_detect) ==
    {IF IsRaise(d) THEN d ELSE Ok(MergeExplicit(d.v, gd)) :
        d \in Detected(gd, auto_detect)}

---------------------------------------------------------------------------
(* LegendBuilder.build_html *)

NODE_SIZE_PADDING == 6
SVG_LINE_LENGTH == 50
ITEM_MARGIN == 6

\* lines 305-322
Palette(dark_mode) ==
    IF dark_mode
    THEN [background   |-> <<"#","1","f","1","f","2","5">>,
          text         |-> <<"#","f","0","f","0","f","5">>,
          border       |-> <<"#","3","a","3","a","4","0">>,
          heading      |-> <<"#","7","d","d","b","a","3">>,
          node_default |-> <<"#","7","d","d","b","a","3">>,
          edge_default |-> <<"#","b","5","b","8","c","5">>]
    ELSE [background   |-> <<"#","f","f","f","f","f","f">>,
          text         |-> <<"#","1","1","1","1","1","1">>,
          border       |-> <<"#","c","c","c","c","c","c">>,
          heading      |-> <<"#","2","2","2","2","2","2">>,
          node_default |-> <<"#","0","0","0","0","0","0">>,
          edge_default |-> <<"#","0","0","0","0","0","0">>]

\* a variant that renders any str color unvalidated
ColorOrRaw(color, default) == IF IsStr(color) THEN color.v ELSE default

\* entry.color if _is_valid_color(entry.color) else <palette default>
ColorOr(color, default) == IF IsValidColor(color) THEN color.v ELSE default

\* _sanitize_dimension(entry.size, default=10) + NODE_SIZE_PADDING
SwatchSize(size) == SanitizeDimension(size, 10) + NODE_SIZE_PADDING

\* lines 380-389: the f-string of one node entry, kept as the record of the
\* values it interpolates
NodeMarkup(entry, palette, shape_css, safe_label) ==
    [kind |-> "node-item", margin |-> ITEM_MARGIN,
     width |-> SwatchSize(entry.size), height |-> SwatchSize(entry.size),
     border_radius |-> shape_css,
     background |-> ColorOr(entry.color, palette.node_default),
     border_width |-> SanitizeDimension(entry.border_width, 0),
     border_color |-> ColorOr(entry.border_color, palette.border),
     label |-> safe_label]

\* lines 420-433: the f-string of one edge entry; stroke_width is the pair
\* <<edge_width, 10>> for the quotient edge_width/10
EdgeMarkup(entry, palette, edge_width, dash_pattern, safe_label) ==
    [kind |-> "edge-item", margin |-> ITEM_MARGIN,
     width |-> SVG_LINE_LENGTH, height |-> edge_width * 2, y |-> edge_width,
     stroke |-> ColorOr(entry.color, palette.edge_default),
     stroke_width |-> <<edge_width, 10>>,
     dasharray |-> dash_pattern, label |-> safe_label]

\* lines 348-389 given what the two calls that can raise returned
NodeItemOf(entry, palette, shape_css, safe_label) ==
    IF IsRaise(shape_css) THEN shape_css
    ELSE IF IsRaise(safe_label) THEN safe_label
    ELSE Ok(NodeMarkup(entry, palette, shape_css.v, safe_label.v))

\* lines 400-433 given what the two calls that can raise returned
EdgeItemOf(entry, palette, dash_pattern, safe_label) ==
    IF IsRaise(dash_pattern) THEN dash_pattern
    ELSE IF IsRaise(safe_label) THEN safe_label
    ELSE Ok(EdgeMarkup(entry, palette, SanitizeDimension(entry.width, 2),
                       dash_pattern.v, safe_label.v))

\* lines 348-389: the list item of one node entry, or the exception raised
NodeItem(entry, palette) ==
    NodeItemOf(entry, palette, GetShapeRadius(entry.shape), HtmlEscape(entry.label))

\* lines 400-433: the list item of one edge entry, or the exception raised
EdgeItem(entry, palette) ==
    EdgeItemOf(entry, palette, GetDashPattern(entry.style), HtmlEscape(entry.label))

\* the loops over node_entries / edge_entries: html_parts extended by one
\* item per entry, or the exception of the first entry that raises
RECURSIVE Items(_, _, _, _)
ItemsRest(parts, item, entries, palette, kind) ==
    IF IsRaise(item) THEN item
    ELSE Items(Append(parts, item.v), entries, palette, kind)

Items(parts, entries, palette, kind) ==
    IF entries = <<>> THEN Ok(parts)
    ELSE ItemsRest(parts,
                   IF kind = "node" THEN NodeItem(Head(entries), palette)
                   ELSE EdgeItem(Head(entries), palette),
                   Tail(entries), palette, kind)

\* html_parts.append('</ul></div>') after the items of a section
CloseSection(items) ==
    IF IsRaise(items) THEN items ELSE Ok(Append(items.v, [kind |-> "end-section"]))

\* a variant that emits the node section even without a node entry
NodeSectionAlways(parts, legend, palette) ==
    CloseSection(Items(parts \o <<[kind |-> "node-legend"],
                                  [kind |-> "h4-nodes"], [kind |-> "ul"]>>,
                       legend.node_entries, palette, "node"))

\* lines 340-390: the node section, omitted when there is no node entry
NodeSection(parts, legend, palette) ==
    IF legend.node_entries # <<>>
    THEN CloseSection(Items(parts \o <<[kind |-> "node-legend"],
                                       [kind |-> "h4-nodes"], [kind |-> "ul"]>>,
                            legend.node_entries, palette, "node"))
    ELSE Ok(parts)

\* lines 392-434: the edge section, omitted when there is no edge entry
EdgeSection(parts, legend, palette) ==
    IF IsRaise(parts) THEN parts
    ELSE IF legend.edge_entries # <<>>
    THEN CloseSection(Items(parts.v \o <<[kind |-> "edge-legend"],
                                         [kind |-> "h4-edges"], [kind |-> "ul"]>>,
                            legend.edge_entries, palette, "edge"))
    ELSE parts

\* lines 325-338: the container and the heading
Container(legend, palette) ==
    <<[kind |-> "legend-container", color |-> palette.text,
       background |-> palette.background, border |-> palette.border,
       opacity |-> legend.opacity],
      [kind |-> "h3-legend", color |-> palette.heading]>>

\* html_parts.append('</div>')
CloseContainer(parts) ==
    IF IsRaise(parts) THEN parts ELSE Ok(Append(parts.v, [kind |-> "end-container"]))

\* lines 304-437 for one legend: html_parts, the list that is newline-joined
RenderLegend(legend, palette) ==
    CloseContainer(
        EdgeSection(NodeSection(Container(legend, palette), legend, palette),
                    legend, palette))

\* LegendBuilder.build_html: the set of possible outcomes, each the local
\* `legend` of line 302 with what is returned, Ok(<html_parts>), or raised
BuildHtml(gd, dark_mode) ==
    {[legend |-> l,
      html |-> IF IsRaise(l) THEN l ELSE RenderLegend(l.v, Palette(dark_mode))] :
        l \in FromGraphData(gd, TRUE)}

---------------------------------------------------------------------------
(* Inputs: the records a caller puts into the graph data *)

StrA == PyStr(<<"A">>)
StrB == PyStr(<<"B">>)
Red == PyStr(<<"r","e","d">>)
Blue == PyStr(<<"b","l","u","e">>)
NotAColor == PyStr(<<"n","o","-","c","!">>)
Blank == PyStr(<<" ">>)
Empty == PyStr(<<>>)
Big == PyStr(<<"b","i","g">>)
Square == PyStr(<<"s","q","u","a","r","e">>)

\* node records: attributes flat or nested under `metadata`
NodeRecords ==
    { <<>>,
      [type |-> StrA],
      [type |-> StrA, size |-> PyInt(8), color |-> Red],
      [type |-> StrA, size |-> PyInt(12), color |-> Blue, shape |-> Square],
      [type |-> StrB, legend_category |-> StrA, size |-> PyInt(-3), color |-> Empty],
      [type |-> StrB, size |-> PyInt(12),
       metadata |-> [type |-> StrA, size |-> PyInt(-8), color |-> Blank]],
      [type |-> StrB, color |-> NotAColor, shape |-> PyStr(Circle)],
      [type |-> StrB, color |-> PyInt(5)],
      [type |-> StrB, size |-> Big] }

\* edge records
EdgeRecords ==
    { <<>>,
      [type |-> StrA, weight |-> PyInt(3), width |-> PyInt(9), color |-> Red],
      [type |-> StrA, width |-> PyInt(4), style |-> PyStr(Dashed)],
      [type |-> StrB, legend_category |-> StrA, weight |-> PyInt(-8),
       color |-> NotAColor],
      [type |-> StrA, metadata |-> [type |-> StrB, style |-> PyInt(7)]],
      [type |-> StrB, weight |-> PyNone] }

\* records of metadata.node_legend
NodeLegendRecords ==
    { <<>>,
      [label |-> StrA, color |-> NotAColor, size |-> PyInt(-3)],
      [label |-> PyStr(<<"<","b",">">>), color |-> PyStr(<<"#","1","2","3","4","5">>),
       size |-> PyStr(<<" ","1","2">>), shape |-> Square,
       border_color |-> Red, border_width |-> PyInt(2)],
      [label |-> StrB, color |-> PyInt(5), size |-> Big],
      [label |-> Empty, color |-> Blank, size |-> PyInt(0)],
      [label |-> PyInt(5), color |-> Red] }

\* records of metadata.edge_legend
EdgeLegendRecords ==
    { <<>>,
      [label |-> StrA, color |-> NotAColor, width |-> PyInt(0),
       style |-> PyStr(Dotted)],
      [label |-> PyStr(<<"e">>), color |-> PyStr(<<"r","g","b","(","1",")">>),
       width |-> PyStr(<<"7">>), style |-> PyStr(<<"D","A","S","H","E","D">>)],
      [label |-> PyStr(<<"x">>), style |-> PyInt(7)] }

\* the whitespace put around a color text
Paddings == {<<>>, <<" ">>, <<"\n">>}

\* short texts over the characters that decide the patterns
ColorAlphabet == {"#", "f", "G", "1", " "}
MaxColorLen == 3
ShortTexts == UNION {[1..n -> ColorAlphabet] : n \in 0..MaxColorLen}

\* "#" followed by n characters, all d or all d but the last
MaxHexLen == 9
HexTexts ==
    {pre \o <<"#">> \o [i \in 1..n |-> IF i = n THEN e ELSE d] \o post :
        n \in 0..MaxHexLen, d \in {"a", "F", "0"}, e \in {"9", "g"},
        pre \in Paddings, post \in Paddings}

\* functional notations, well and badly formed
FuncTexts ==
    { <<"r","g","b","(","1",")">>, <<"r","g","b","a","(","1",",","2",")">>,
      <<"R","G","B","(","1",")">>, <<"h","s","l","(","1",")">>,
      <<"H","s","l","A","(","1",")">>, <<"r","g","b","(",")">>,
      <<"r","g","b","(","1">>, <<"r","g","b","(","1",")",")">>,
      <<"r","g","x","(","1",")">>, <<"r","g","b","(","\n",")">>,
      <<" ","h","s","l","(","1",")","\n">>, <<"r","e","d">>, <<"R","e","d","\n">>,
      <<"n","o","-","c","!">>, <<"r","e","d"," ","x">> }

\* the values _is_valid_color is called with
ColorInputs ==
    {PyStr(s) : s \in ShortTexts \cup HexTexts \cup FuncTexts}
        \cup {PyNone, PyInt(0), PyInt(5), PyBool(TRUE)}

---------------------------------------------------------------------------
(* The caller: it builds a graph data, then makes one call of the builder  *)
(* on it. The static methods read nothing but their arguments, so a call   *)
(* does not depend on the calls made before it. `last` is that call: its   *)
(* operation, its arguments (arg, flag), the local `legend` of build_html, *)
(* and what it returned or raised.                                         *)

NoLegend == Ok(LegendConfig)
NoCall == [op |-> "none", arg |-> <<>>, flag |-> FALSE, legend |-> NoLegend,
           ret |-> Ok(<<>>)]

Nodes(gd) == DictGet(gd, "nodes", <<>>)
Edges(gd) == DictGet(gd, "edges", <<>>)
Metadata(gd) == DictGet(gd, "metadata", <<>>)
NodeLegend(gd) == DictGet(Metadata(gd), "node_legend", <<>>)
EdgeLegend(gd) == DictGet(Metadata(gd), "edge_legend", <<>>)

NumRecords(gd) ==
    Len(Nodes(gd)) + Len(Edges(gd)) + Len(NodeLegend(gd)) + Len(EdgeLegend(gd))

\* d[k] = v on a dict
DictSet(d, k, v) == IF k \in DOMAIN d THEN [d EXCEPT ![k] = v] ELSE (k :> v) @@ d

\* no call was made yet
Idle == last.op = "none"

Building == Idle /\ NumRecords(graph_data) < MaxRecords

Init ==
    /\ graph_data = <<>>
    /\ last = NoCall
    /\ heap = <<>>
    /\ configs = <<>>
    /\ log = <<>>

\* graph_data['nodes'].append(r), the list created on first use
AddNode(r) ==
    /\ Building
    /\ graph_data' = DictSet(graph_data, "nodes", Append(Nodes(graph_data), r))
    /\ UNCHANGED <<last, heap, configs, log>>

\* graph_data['edges'].append(r), the list created on first use
AddEdge(r) ==
    /\ Building
    /\ graph_data' = DictSet(graph_data, "edges", Append(Edges(graph_data), r))
    /\ UNCHANGED <<last, heap, configs, log>>

\* graph_data['metadata'] = {}
DeclareMetadata ==
    /\ Idle
    /\ "metadata" \notin DOMAIN graph_data
    /\ graph_data' = DictSet(graph_data, "metadata", <<>>)
    /\ UNCHANGED <<last, heap, configs, log>>

\* graph_data['metadata'][key] = []
DeclareLegend(key) ==
    /\ Idle
    /\ "metadata" \in DOMAIN graph_data
    /\ key \notin DOMAIN graph_data["metadata"]
    /\ graph_data' = DictSet(graph_data, "metadata",
                             DictSet(graph_data["metadata"], key, <<>>))
    /\ UNCHANGED <<last, heap, configs, log>>

\* graph_data['metadata'][key].append(r)
AddLegendRecord(key, r) ==
    /\ Building
    /\ "metadata" \in DOMAIN graph_data
    /\ key \in DOMAIN graph_data["metadata"]
    /\ graph_data' = DictSet(graph_data, "metadata",
                             DictSet(graph_data["metadata"], key,
                                     Append(graph_data["metadata"][key], r)))
    /\ UNCHANGED <<last, heap, configs, log>>

\* LegendBuilder._detect_node_categories(graph_data)
CallDetectNodeCategories ==
    /\ Idle
    /\ \E out \in DetectNodeCategories(graph_data) :
           last' = [op |-> "_detect_node_categories", arg |-> graph_data,
                    flag |-> FALSE, legend |-> NoLegend, ret |-> out]
    /\ UNCHANGED <<graph_data, heap, configs, log>>

\* LegendBuilder._detect_edge_categories(graph_data)
CallDetectEdgeCategories ==
    /\ Idle
    /\ \E out \in DetectEdgeCategories(graph_data) :
           last' = [op |-> "_detect_edge_categories", arg |-> graph_data,
                    flag |-> FALSE, legend |-> NoLegend, ret |-> out]
    /\ UNCHANGED <<graph_data, heap, configs, log>>

\* LegendBuilder.from_graph_data(graph_data, auto_detect)
CallFromGraphData(auto_detect) ==
    /\ Idle
    /\ \E out \in FromGraphData(graph_data, auto_detect) :
           last' = [op |-> "from_graph_data", arg |-> graph_data,
                    flag |-> auto_detect, legend |-> out, ret |-> out]
    /\ UNCHANGED <<graph_data, heap, configs, log>>

\* LegendBuilder.build_html(graph_data, dark_mode)
CallBuildHtml(dark_mode) ==
    /\ Idle
    /\ \E out \in BuildHtml(graph_data, dark_mode) :
           last' = [op |-> "build_html", arg |-> graph_data,
                    flag |-> dark_mode, legend |-> out.legend, ret |-> out.html]
    /\ UNCHANGED <<graph_data, heap, configs, log>>

\* LegendBuilder._is_valid_color(color)
CallIsValidColor(color) ==
    /\ Idle
    /\ last' = [op |-> "_is_valid_color", arg |-> color, flag |-> FALSE,
                legend |-> NoLegend, ret |-> IsValidColor(color)]
    /\ UNCHANGED <<graph_data, heap, configs, log>>

Next ==
    \/ \E r \in NodeRecords : AddNode(r)
    \/ \E r \in EdgeRecords : AddEdge(r)
    \/ DeclareMetadata
    \/ \E key \in {"node_legend", "edge_legend"} : DeclareLegend(key)
    \/ \E r \in NodeLegendRecords : AddLegendRecord("node_legend", r)
    \/ \E r \in EdgeLegendRecords : AddLegendRecord("edge_legend", r)
    \/ CallDetectNodeCategories
    \/ CallDetectEdgeCategories
    \/ \E auto_detect \in BOOLEAN : CallFromGraphData(auto_detect)
    \/ \E dark_mode \in BOOLEAN : CallBuildHtml(dark_mode)

\* the builder called on graph data
Spec == Init /\ [][Next]_vars

NextColor == \E color \in ColorInputs : CallIsValidColor(color)

\* the pure function _is_valid_color applied to its inputs
SpecColor == Init /\ [][NextColor]_vars

---------------------------------------------------------------------------
(* The configs a caller holds: from_graph_data called again and again,     *)
(* add_node_entry / add_edge_entry called on the configs it returned.      *)
(* `heap` holds the entry lists by address, `configs` the LegendConfig     *)
(* objects returned so far, `log` the calls made, in call order.           *)

\* number of calls of from_graph_data, add_node_entry and add_edge_entry
MaxCalls == 3

\* a variant with one pair of lists shared by every config (a class-level
\* default instead of a default_factory)
SharedLists(h) == <<1, 2>>

\* field(default_factory=list), twice: the addresses of two new lists
FreshLists(h) == <<Len(h) + 1, Len(h) + 2>>

\* the heap with the lists at `addrs` created empty where they do not exist
Allocate(h, addrs) ==
    [a \in 1..Max(Len(h), Max(addrs[1], addrs[2])) |->
        IF a \in DOMAIN h THEN h[a] ELSE <<>>]

\* the object LegendConfig() constructs on the lists at `addrs`
ConfigOn(addrs) ==
    [opacity |-> LegendConfig.opacity,
     node_entries |-> addrs[1], edge_entries |-> addrs[2]]

\* self.node_entries.append(entry) / self.edge_entries.append(entry)
HeapAppend(h, addr, entry) == [h EXCEPT ![addr] = Append(@, entry)]

\* the appends of one from_graph_data call (lines 133, 143, 166, 176) on
\* the lists of its config: node entries, then edge entries, in call order
RECURSIVE HeapExtend(_, _, _)
HeapExtend(h, addr, entries) ==
    IF entries = <<>> THEN h
    ELSE HeapExtend(HeapAppend(h, addr, Head(entries)), addr, Tail(entries))

\* the heap after from_graph_data built `legend` on a new config
Populate(h, config, legend) ==
    HeapExtend(HeapExtend(h, config.node_entries, legend.node_entries),
               config.edge_entries, legend.edge_entries)

\* a call made: the config it returned or was called on (0 when it raised)
Logged(op, config, ret) == [op |-> op, config |-> config, ret |-> ret]

\* from_graph_data returned: the config of line 127 with its entries
ReturnConfig(out, addrs) ==
    /\ heap' = Populate(Allocate(heap, addrs), ConfigOn(addrs), out.v)
    /\ configs' = Append(configs, ConfigOn(addrs))
    /\ log' = Append(log, Logged("from_graph_data", Len(configs) + 1, out))

\* from_graph_data raised: its config is dropped, no caller holds it
RaiseConfig(out) ==
    /\ log' = Append(log, Logged("from_graph_data", 0, out))
    /\ UNCHANGED <<heap, configs>>

\* graph data a caller renders
GraphDatas ==
    { <<>>,
      [nodes |-> <<[type |-> StrA, size |-> PyInt(8), color |-> Red]>>,
       edges |-> <<[type |-> StrB, width |-> PyInt(4)]>>,
       metadata |-> [node_legend |-> <<[label |-> StrA, color |-> Blue]>>]],
      [nodes |-> <<[type |-> StrB, color |-> PyInt(5)]>>,
       metadata |-> [edge_legend |-> <<[label |-> StrB]>>]] }

\* the entries a caller adds
AddedNodeEntries ==
    { NodeLegendEntry(StrA, Red, PyStr(Circle), PyInt(10), PyNone, PyInt(0)),
      NodeLegendEntry(StrB, NotAColor, Square, PyInt(10), PyNone, PyInt(0)) }
AddedEdgeEntries ==
    { EdgeLegendEntry(StrA, Red, PyInt(2), PyStr(Solid), PyBool(TRUE)),
      EdgeLegendEntry(StrB, Blue, PyInt(2), PyStr(Dashed), PyBool(TRUE)) }

Calling == Idle /\ Len(log) < MaxCalls

\* config = LegendBuilder.from_graph_data(gd, auto_detect) on the current
\* graph data
NewConfig(gd, auto_detect) ==
    /\ Calling
    /\ graph_data' = gd
    /\ \E out \in FromGraphData(gd, auto_detect) :
           IF IsRaise(out) THEN RaiseConfig(out)
           ELSE ReturnConfig(out, FreshLists(heap))
    /\ UNCHANGED last

\* configs[c].add_node_entry(...) on a config the caller holds
ConfigAddNodeEntry(c, entry) ==
    /\ Calling
    /\ c \in DOMAIN configs
    /\ heap' = HeapAppend(heap, configs[c].node_entries, entry)
    /\ log' = Append(log, Logged("add_node_entry", c, Ok(entry)))
    /\ UNCHANGED <<graph_data, last, configs>>

\* configs[c].add_edge_entry(...) on a config the caller holds
ConfigAddEdgeEntry(c, entry) ==
    /\ Calling
    /\ c \in DOMAIN configs
    /\ heap' = HeapAppend(heap, configs[c].edge_entries, entry)
    /\ log' = Append(log, Logged("add_edge_entry", c, Ok(entry)))
    /\ UNCHANGED <<graph_data, last, configs>>

NextConfigs ==
    \/ \E gd \in GraphDatas : \E auto_detect \in BOOLEAN : NewConfig(gd, auto_detect)
    \/ \E c \in 1..MaxCalls : \E entry \in AddedNodeEntries :
           ConfigAddNodeEntry(c, entry)
    \/ \E c \in 1..MaxCalls : \E entry \in AddedEdgeEntries :
           ConfigAddEdgeEntry(c, entry)

\* from_graph_data and the add methods called in any order
SpecConfigs == Init /\ [][NextConfigs]_vars

---------------------------------------------------------------------------
(* Properties *)

Returned == ~IsRaise(last.ret)
DetectorCalled == last.op \in {"_detect_node_categories", "_detect_edge_categories"}

\* the records the called detector reads
DetectedRecords ==
    IF last.op = "_detect_node_categories" THEN Nodes(last.arg) ELSE Edges(last.arg)

\* where the specification says the attributes of a record are
AttrsOf(r) == IF "metadata" \in DOMAIN r THEN r["metadata"] ELSE r

\* the category the specification gives a record
ClaimedCategory(r) ==
    IF "legend_category" \in DOMAIN AttrsOf(r) THEN AttrsOf(r)["legend_category"]
    ELSE IF "type" \in DOMAIN AttrsOf(r) THEN AttrsOf(r)["type"]
    ELSE PyStr(<<"d","e","f","a","u","l","t">>)

\* the record carries a non-empty color
HasColor(r) ==
    /\ "color" \in DOMAIN AttrsOf(r)
    /\ IsStr(AttrsOf(r)["color"])
    /\ \E i \in DOMAIN AttrsOf(r)["color"].v : AttrsOf(r)["color"].v[i] \notin Whitespace

\* the non-empty colors of the records of a category
ColorsOf(records, key) ==
    {AttrsOf(r)["color"] : r \in {x \in Range(records) : ClaimedCategory(x) = key /\ HasColor(x)}}

\* C1: every record is grouped under legend_category if present, else type,
\* else "default", read from `metadata` when the record has one: the keys of
\* the detector's result are exactly these categories, and the color of a
\* category is a color of one of the records so grouped (None without any).
C1_CategoryKey ==
    DetectorCalled /\ Returned =>
        /\ {last.ret.v[i].key : i \in DOMAIN last.ret.v}
               = {ClaimedCategory(r) : r \in Range(DetectedRecords)}
        /\ \A i \in DOMAIN last.ret.v :
               IF ColorsOf(DetectedRecords, last.ret.v[i].key) = {}
               THEN last.ret.v[i].props.color = PyNone
               ELSE last.ret.v[i].props.color
                        \in ColorsOf(DetectedRecords, last.ret.v[i].key)

\* a detector returned for records with a legend_category, with nested
\* metadata, and with neither attribute
C1_Witness ==
    /\ last.op = "_detect_node_categories"
    /\ Returned
    /\ Len(last.ret.v) >= 2
    /\ \E r \in Range(Nodes(last.arg)) :
           "legend_category" \in DOMAIN r /\ "type" \in DOMAIN r
    /\ \E r \in Range(Nodes(last.arg)) : "metadata" \in DOMAIN r
    /\ \E r \in Range(Nodes(last.arg)) : DOMAIN r = {}

\* the distinct members of a sequence, in the order each is first seen
RECURSIVE FirstSeen(_)
FirstSeen(s) ==
    IF s = <<>> THEN <<>>
    ELSE IF s[Len(s)] \in Range(SubSeq(s, 1, Len(s) - 1))
    THEN FirstSeen(SubSeq(s, 1, Len(s) - 1))
    ELSE Append(FirstSeen(SubSeq(s, 1, Len(s) - 1)), s[Len(s)])

Categories(records) == [i \in DOMAIN records |-> ClaimedCategory(records[i])]
Labels(entries) == [i \in DOMAIN entries |-> entries[i].label]

\* what the specification reads from an explicit record, with its fallback
Field(rec, key, fallback) == IF key \in DOMAIN rec THEN rec[key] ELSE fallback
ExplicitLabels(records) ==
    [i \in DOMAIN records |-> Field(records[i], "label", PyStr(<<>>))]

AutoDetectCalled == last.op = "from_graph_data" /\ last.flag

\* C2: with auto_detect, the labels of node_entries are the distinct node
\* categories in first-seen order followed by the labels of all node_legend
\* records in list order, none dropped or de-duplicated; the same for
\* edge_entries; so len(node_entries) = categories + node_legend records.
C2_EntryOrder ==
    AutoDetectCalled /\ Returned =>
        /\ Labels(last.ret.v.node_entries)
               = FirstSeen(Categories(Nodes(last.arg)))
                     \o ExplicitLabels(NodeLegend(last.arg))
        /\ Labels(last.ret.v.edge_entries)
               = FirstSeen(Categories(Edges(last.arg)))
                     \o ExplicitLabels(EdgeLegend(last.arg))
        /\ Len(last.ret.v.node_entries)
               = Cardinality(Range(Categories(Nodes(last.arg))))
                     + Len(NodeLegend(last.arg))

\* two nodes of one category and an explicit entry with that category's label
C2_Witness ==
    /\ AutoDetectCalled
    /\ Returned
    /\ Len(Nodes(last.arg)) = 2
    /\ Cardinality(Range(Categories(Nodes(last.arg)))) = 1
    /\ Len(last.ret.v.node_entries) = 2
    /\ last.ret.v.node_entries[1].label = last.ret.v.node_entries[2].label

NumCategories(records) == Cardinality(Range(Categories(records)))

\* C3: the entry from_graph_data produces for a category none of whose
\* records carries a non-empty color has the default color, #666666 for a
\* node entry and #999999 for an edge entry.
C3_DefaultColor ==
    AutoDetectCalled /\ Returned =>
        /\ \A i \in 1..NumCategories(Nodes(last.arg)) :
               ColorsOf(Nodes(last.arg), last.ret.v.node_entries[i].label) = {}
                   => last.ret.v.node_entries[i].color
                          = PyStr(<<"#","6","6","6","6","6","6">>)
        /\ \A i \in 1..NumCategories(Edges(last.arg)) :
               ColorsOf(Edges(last.arg), last.ret.v.edge_entries[i].label) = {}
                   => last.ret.v.edge_entries[i].color
                          = PyStr(<<"#","9","9","9","9","9","9">>)

\* the size of a node record, the weight or else the width of an edge record
HasDim(r) ==
    IF last.op = "_detect_node_categories" THEN "size" \in DOMAIN AttrsOf(r)
    ELSE "weight" \in DOMAIN AttrsOf(r) \/ "width" \in DOMAIN AttrsOf(r)
DimOf(r) ==
    IF last.op = "_detect_node_categories" THEN AttrsOf(r)["size"]
    ELSE IF "weight" \in DOMAIN AttrsOf(r) THEN AttrsOf(r)["weight"]
    ELSE AttrsOf(r)["width"]

\* the distinct values seen on the records of a category
DimsOf(records, key) ==
    {DimOf(r) : r \in {x \in Range(records) : ClaimedCategory(x) = key /\ HasDim(x)}}

RECURSIVE Total(_)
Total(S) == IF S = {} THEN 0 ELSE LET x == CHOOSE y \in S : TRUE IN x.v + Total(S \ {x})

\* q is total / n truncated toward zero
IsTruncatedQuotient(q, total, n) ==
    IF total >= 0 THEN q >= 0 /\ q * n <= total /\ total < (q + 1) * n
    ELSE q <= 0 /\ q * n >= total /\ total > (q - 1) * n

DetectedDim(i) ==
    IF last.op = "_detect_node_categories" THEN last.ret.v[i].props.size
    ELSE last.ret.v[i].props.width

\* C4: the detected size (width) of a category is the sum of the distinct
\* values seen on its records divided by their number, truncated toward
\* zero, and 10 (2) when no record carries a value.
C4_TruncatedAverage ==
    DetectorCalled /\ Returned =>
        \A i \in DOMAIN last.ret.v :
            IF DimsOf(DetectedRecords, last.ret.v[i].key) = {}
            THEN DetectedDim(i)
                     = PyInt(IF last.op = "_detect_node_categories" THEN 10 ELSE 2)
            ELSE /\ IsInt(DetectedDim(i))
                 /\ IsTruncatedQuotient(
                        DetectedDim(i).v,
                        Total(DimsOf(DetectedRecords, last.ret.v[i].key)),
                        Cardinality(DimsOf(DetectedRecords, last.ret.v[i].key)))

\* three nodes of one category with sizes 8, 8 and 12: the size is 10
C4_Witness ==
    /\ last.op = "_detect_node_categories"
    /\ Returned
    /\ Len(Nodes(last.arg)) = 3
    /\ Len(last.ret.v) = 1
    /\ \A i \in 1..3 : HasDim(Nodes(last.arg)[i])
    /\ DimOf(Nodes(last.arg)[1]) = PyInt(8)
    /\ DimOf(Nodes(last.arg)[2]) = PyInt(8)
    /\ DimOf(Nodes(last.arg)[3]) = PyInt(12)
    /\ last.ret.v[1].props.size = PyInt(10)

\* C5: without auto_detect, node_entries are exactly the records of
\* metadata.node_legend in list order and edge_entries those of
\* metadata.edge_legend, whatever nodes and edges hold.
C5_ExplicitOnly ==
    last.op = "from_graph_data" /\ ~last.flag =>
        /\ Returned
        /\ Len(last.ret.v.node_entries) = Len(NodeLegend(last.arg))
        /\ Len(last.ret.v.edge_entries) = Len(EdgeLegend(last.arg))
        /\ \A i \in DOMAIN NodeLegend(last.arg) :
               /\ last.ret.v.node_entries[i].label
                      = Field(NodeLegend(last.arg)[i], "label", PyStr(<<>>))
               /\ last.ret.v.node_entries[i].color
                      = Field(NodeLegend(last.arg)[i], "color",
                              PyStr(<<"#","6","6","6","6","6","6">>))
               /\ last.ret.v.node_entries[i].size
                      = Field(NodeLegend(last.arg)[i], "size", PyInt(10))
        /\ \A i \in DOMAIN EdgeLegend(last.arg) :
               /\ last.ret.v.edge_entries[i].label
                      = Field(EdgeLegend(last.arg)[i], "label", PyStr(<<>>))
               /\ last.ret.v.edge_entries[i].color
                      = Field(EdgeLegend(last.arg)[i], "color",
                              PyStr(<<"#","9","9","9","9","9","9">>))
               /\ last.ret.v.edge_entries[i].width
                      = Field(EdgeLegend(last.arg)[i], "width", PyInt(2))

\* a call without auto_detect on graph data holding a node, an edge and an
\* explicit node entry
C5_Witness ==
    /\ last.op = "from_graph_data"
    /\ ~last.flag
    /\ Returned
    /\ Nodes(last.arg) # <<>>
    /\ Edges(last.arg) # <<>>
    /\ Len(last.ret.v.node_entries) = 1

Kinds(parts) == [i \in DOMAIN parts |-> parts[i].kind]

C7_NeverRaises ==
    last.op \in {"from_graph_data", "build_html"} => Returned

NodeItems(parts) == SelectSeq(parts, LAMBDA p : p.kind = "node-item")
EdgeItems(parts) == SelectSeq(parts, LAMBDA p : p.kind = "edge-item")

\* the swatch size the specification gives a size
ClaimedSwatch(size) ==
    IF IsRaise(PyIntOf(size)) THEN 10 + 6
    ELSE (IF PyIntOf(size).v >= 1 THEN PyIntOf(size).v ELSE 1) + 6

\* C8: the swatch of every rendered node entry is max(1, int(size)) + 6 wide
\* and high when the size coerces to an integer and 10 + 6 when it does not;
\* a negative or zero size renders 7 pixels.
C8_SwatchSize ==
    last.op = "build_html" /\ Returned =>
        /\ Len(NodeItems(last.ret.v)) = Len(last.legend.v.node_entries)
        /\ \A i \in DOMAIN last.legend.v.node_entries :
               /\ NodeItems(last.ret.v)[i].width
                      = ClaimedSwatch(last.legend.v.node_entries[i].size)
               /\ NodeItems(last.ret.v)[i].height
                      = ClaimedSwatch(last.legend.v.node_entries[i].size)
               /\ IsInt(last.legend.v.node_entries[i].size)
                      /\ last.legend.v.node_entries[i].size.v <= 0
                      => NodeItems(last.ret.v)[i].width = 7

\* a rendered entry with a size below 1 and one whose size is no number
C8_Witness ==
    /\ last.op = "build_html"
    /\ Returned
    /\ \E i \in DOMAIN last.legend.v.node_entries :
           /\ IsInt(last.legend.v.node_entries[i].size)
           /\ last.legend.v.node_entries[i].size.v < 0
           /\ NodeItems(last.ret.v)[i].width = 7
    /\ \E i \in DOMAIN last.legend.v.node_entries :
           /\ IsStr(last.legend.v.node_entries[i].size)
           /\ IsRaise(PyIntOf(last.legend.v.node_entries[i].size))
           /\ NodeItems(last.ret.v)[i].width = 16

\* "#" followed by exactly 3, 4, 6 or 8 hexadecimal digits
IsCssHex(s) ==
    /\ s # <<>>
    /\ s[1] = "#"
    /\ Len(s) - 1 \in {3, 4, 6, 8}
    /\ \A i \in 2..Len(s) : s[i] \in HexDigits

\* rgb(...), rgba(...), hsl(...) or hsla(...)
IsCssFunc(s) ==
    \E p \in {3, 4} :
        /\ Len(s) >= p + 3
        /\ Lower(SubSeq(s, 1, 3)) \in {<<"r","g","b">>, <<"h","s","l">>}
        /\ p = 4 => LowerChar(s[4]) = "a"
        /\ s[p + 1] = "("
        /\ s[Len(s)] = ")"
        /\ \A i \in (p + 2)..(Len(s) - 1) : s[i] # ")"

\* C9: _is_valid_color accepts a string beginning with "#" if and only if,
\* stripped, the "#" is followed by exactly 3, 4, 6 or 8 hexadecimal digits;
\* it accepts rgb()/rgba()/hsl()/hsla() notations and bare alphabetic
\* tokens, and rejects empty, whitespace-only and non-string values.
C9_ColorValidity ==
    last.op = "_is_valid_color" =>
        /\ ~IsStr(last.arg) => ~last.ret
        /\ IsStr(last.arg) /\ Strip(last.arg.v) = <<>> => ~last.ret
        /\ IsStr(last.arg) /\ last.arg.v # <<>> /\ last.arg.v[1] = "#"
               => (last.ret <=> IsCssHex(Strip(last.arg.v)))
        /\ IsStr(last.arg) /\ IsCssFunc(Strip(last.arg.v)) => last.ret
        /\ IsStr(last.arg) /\ Strip(last.arg.v) # <<>>
               /\ (\A i \in DOMAIN Strip(last.arg.v) : Strip(last.arg.v)[i] \in Letters)
               => last.ret

\* the palette default the specification names for each mode
ClaimedNodeDefault == IF last.flag THEN <<"#","7","d","d","b","a","3">>
                      ELSE <<"#","0","0","0","0","0","0">>
ClaimedEdgeDefault == IF last.flag THEN <<"#","b","5","b","8","c","5">>
                      ELSE <<"#","0","0","0","0","0","0">>

\* C10: a rendered entry whose color is not valid per _is_valid_color gets
\* the palette default of the selected mode (node #000000 light, #7ddba3
\* dark; edge #000000 light, #b5b8c5 dark), never its own value; an entry
\* whose color is valid is rendered with its own color in both modes.
C10_ColorFallback ==
    last.op = "build_html" /\ Returned =>
        /\ Len(NodeItems(last.ret.v)) = Len(last.legend.v.node_entries)
        /\ Len(EdgeItems(last.ret.v)) = Len(last.legend.v.edge_entries)
        /\ \A i \in DOMAIN last.legend.v.node_entries :
               NodeItems(last.ret.v)[i].background
                   = IF IsValidColor(last.legend.v.node_entries[i].color)
                     THEN last.legend.v.node_entries[i].color.v
                     ELSE ClaimedNodeDefault
        /\ \A i \in DOMAIN last.legend.v.edge_entries :
               EdgeItems(last.ret.v)[i].stroke
                   = IF IsValidColor(last.legend.v.edge_entries[i].color)
                     THEN last.legend.v.edge_entries[i].color.v
                     ELSE ClaimedEdgeDefault

\* dark mode: a node entry with an invalid color string gets #7ddba3, a
\* node entry with a valid color keeps it, an edge entry without a color
\* gets #b5b8c5
C10_Witness ==
    /\ last.op = "build_html"
    /\ last.flag
    /\ Returned
    /\ \E i \in DOMAIN last.legend.v.node_entries :
           /\ last.legend.v.node_entries[i].color = NotAColor
           /\ NodeItems(last.ret.v)[i].background = <<"#","7","d","d","b","a","3">>
    /\ \E i \in DOMAIN last.legend.v.node_entries :
           /\ last.legend.v.node_entries[i].color = Red
           /\ NodeItems(last.ret.v)[i].background = Red.v
    /\ \E i \in DOMAIN last.legend.v.edge_entries :
           /\ last.legend.v.edge_entries[i].color = PyNone
           /\ EdgeItems(last.ret.v)[i].stroke = <<"#","b","5","b","8","c","5">>


\* the calls made on (or returning) config c, in call order
CallsOn(c, op) == SelectSeq(log, LAMBDA call : call.config = c /\ call.op = op)

\* the entries the add calls of kind `op` put into config c, in call order
AddedTo(c, op) == [i \in DOMAIN CallsOn(c, op) |-> CallsOn(c, op)[i].ret.v]

\* the LegendConfig value the from_graph_data call of config c built
ProducedFor(c) == CallsOn(c, "from_graph_data")[1].ret.v

\* C11: after any sequence of from_graph_data calls interleaved with
\* add_node_entry / add_edge_entry calls on the returned configs, every
\* config holds exactly the entries its own from_graph_data call produced
\* followed by the entries added to it, in call order: no call on another
\* config changes them, and add_node_entry leaves edge_entries unchanged
\* (and conversely).
C11_OwnEntries ==
    \A c \in DOMAIN configs :
        /\ Len(CallsOn(c, "from_graph_data")) = 1
        /\ heap[configs[c].node_entries]
               = ProducedFor(c).node_entries \o AddedTo(c, "add_node_entry")
        /\ heap[configs[c].edge_entries]
               = ProducedFor(c).edge_entries \o AddedTo(c, "add_edge_entry")

\* two configs built from graph data that yields entries, then an entry
\* added to the first: the second still holds what its own call produced
C11_Witness ==
    /\ Len(configs) = 2
    /\ Len(log) = 3
    /\ log[3].op = "add_node_entry"
    /\ log[3].config = 1
    /\ ProducedFor(1).node_entries # <<>>
    /\ ProducedFor(2).node_entries # <<>>
    /\ Len(heap[configs[1].node_entries]) = Len(ProducedFor(1).node_entries) + 1
    /\ heap[configs[2].node_entries] = ProducedFor(2).node_entries
    /\ heap[configs[1].edge_entries] = ProducedFor(1).edge_entries
===========================================================================
